---- MODULE Spec2Model ----
(***************************************************************************)
(* The encrypted secret storage engine of indietool (package secrets):     *)
(* the OS keyring that holds one age identity per database, the per-       *)
(* database BadgerDB directories under the storage root, and the Manager   *)
(* operations that tie them together.                                      *)
(***************************************************************************)
EXTENDS Integers, Sequences, FiniteSets, TLC

(***************************************************************************)
(* Bounds of the model.                                                    *)
(***************************************************************************)
\* the clock runs from 0 to MaxTime
MaxTime == 1
\* number of identities age.GenerateX25519Identity hands out
MaxKeys == 1
\* number of steps (state-changing Manager calls and clock ticks) in one behaviour
MaxSteps == 3

(***************************************************************************)
(* Inputs.  Strings are sequences of characters so that the JSON encoding  *)
(* can act on them; InvalidByte is a byte that is not valid UTF-8 and      *)
(* ReplacementChar is U+FFFD.                                              *)
(***************************************************************************)
InvalidByte == "xFF"
ReplacementChar == "uFFFD"

Names == {"k1", "k2"}
\* database names as the caller gives them; "work/" names the directory of "work"
DatabaseArgs == {"", "default", "work", "work/"}
KeyPaths == {"", "good.key", "bad.key", "missing.key"}

NoExpiry == [present |-> FALSE, t |-> 0, yearInRange |-> TRUE]
ExpiryAt(t) == [present |-> TRUE, t |-> t, yearInRange |-> TRUE]
\* a *time.Time whose year lies outside [0,9999]
ExpiryYear10000 == [present |-> TRUE, t |-> MaxTime + 1, yearInRange |-> FALSE]

\* the (value, note, expiresAt) arguments SetSecret is called with
SecretArgs ==
    { [value |-> <<"a">>, note |-> <<>>, expiresAt |-> NoExpiry],
      [value |-> <<"b">>, note |-> <<"n">>, expiresAt |-> ExpiryAt(0)],
      [value |-> <<InvalidByte>>, note |-> <<>>, expiresAt |-> NoExpiry],
      [value |-> <<"a">>, note |-> <<"n">>, expiresAt |-> ExpiryYear10000] }

\* error values
OK == "ok"
ErrSecretDBNotFound == "DatabaseNotFound"
ErrRecordNotFound == "RecordNotFound"
ErrKeyNotFound == "KeyNotFound"
ErrDecrypt == "DecryptionError"
ErrMarshal == "SerializationError"
ErrReadKeyFile == "KeyFileReadError"
ErrParseKey == "KeyParseError"
\* the error the specification names for an InitDatabase over an existing key
ErrKeyAlreadyExists == "KeyAlreadyExists"

VARIABLES
    cfg,        \* indietool.Config: [Path, Secrets], the configuration the commands load
    calls,      \* per process, the SetSecret call it is in the middle of
    config,     \* secrets.Config: [DefaultDatabase]
    keyring,    \* OS keyring: key name -> identity, for the entries that exist
    disk,       \* [root: the storage root exists, dirs: database directory -> its keys and blobs]
    now,        \* the wall clock
    nextKey,    \* the next identity GenerateX25519Identity returns
    steps,      \* steps made so far
    last,       \* the last step: the Manager call, its arguments and its result
    hist        \* history of the calls made, kept to state the properties:
                \*   run: per (database, name) the successful SetSecret calls since its last delete
                \*   deleted: database arguments given to DeleteDatabase and not written since
                \*   everSet: databases a SetSecret has stored a record in
                \*   written: databases a SetSecret or DeleteSecret has opened for writing
                \*   removed: <<database, name, createdAt>> of the records DeleteSecret has removed
                \*   userDir: the storage directory of cfg was set by the user
                \*   latest: per <<directory, key>> set and not deleted since, the blob of
                \*           the last Storage.Set call and the number of such calls
                \*           (kept by the steps that call the RecordStore directly)

vars == <<cfg, calls, config, keyring, disk, now, nextKey, steps, last, hist>>

(***************************************************************************)
(* types.go, manager.go: configuration and the Secret entity               *)
(***************************************************************************)
GetDefaultDatabase(c) ==
    IF c.DefaultDatabase # "" THEN c.DefaultDatabase ELSE "default"

\* database == "" resolves to the configured default (manager.go:42-44 and alike)
ResolveDatabase(c, database) ==
    IF database = "" THEN GetDefaultDatabase(c) ELSE database

NilSecret ==
    [Name |-> "", Value |-> <<>>, Note |-> <<>>, CreatedAt |-> 0, UpdatedAt |-> 0,
     ExpiresAt |-> NoExpiry]

\* a variant in which a secret counts as expired from the instant of its expiry on
IsExpired_FromExpiryOn(s, t) == s.ExpiresAt.present /\ t >= s.ExpiresAt.t

\* time.Now().After(*s.ExpiresAt), t being the reading of time.Now()
IsExpired(s, t) == s.ExpiresAt.present /\ t > s.ExpiresAt.t

(***************************************************************************)
(* encoding/json on Secret (types.go:9-16).  A document is a function from *)
(* the field tags that are present to their encoded values.                *)
(***************************************************************************)
JStr(s) == [kind |-> "string", s |-> s, t |-> 0]
JTime(t) == [kind |-> "time", s |-> <<>>, t |-> t]

\* json coerces a string to valid UTF-8: every invalid byte becomes U+FFFD
ToValidUTF8(s) ==
    [i \in DOMAIN s |-> IF s[i] = InvalidByte THEN ReplacementChar ELSE s[i]]

Field(tag, v) == [x \in {tag} |-> v]

MarshalSecret(s) ==
    IF s.ExpiresAt.present /\ ~s.ExpiresAt.yearInRange
    THEN [err |-> ErrMarshal, data |-> << >>]
    ELSE [err |-> OK,
          data |-> Field("name", JStr(ToValidUTF8(<<s.Name>>)))
                   @@ Field("value", JStr(ToValidUTF8(s.Value)))
                   @@ (IF s.Note = <<>> THEN << >> ELSE Field("note", JStr(ToValidUTF8(s.Note))))
                   @@ Field("created_at", JTime(s.CreatedAt))
                   @@ Field("updated_at", JTime(s.UpdatedAt))
                   @@ (IF s.ExpiresAt.present
                       THEN Field("expires_at", JTime(s.ExpiresAt.t))
                       ELSE << >>)]

\* json.Unmarshal leaves a field that is absent from the document at its zero value
UnmarshalSecret(data) ==
    [Name |-> IF "name" \in DOMAIN data THEN data["name"].s[1] ELSE "",
     Value |-> IF "value" \in DOMAIN data THEN data["value"].s ELSE <<>>,
     Note |-> IF "note" \in DOMAIN data THEN data["note"].s ELSE <<>>,
     CreatedAt |-> IF "created_at" \in DOMAIN data THEN data["created_at"].t ELSE 0,
     UpdatedAt |-> IF "updated_at" \in DOMAIN data THEN data["updated_at"].t ELSE 0,
     ExpiresAt |-> IF "expires_at" \in DOMAIN data
                   THEN ExpiryAt(data["expires_at"].t)
                   ELSE NoExpiry]

(***************************************************************************)
(* encryption.go: the keyring and age                                      *)
(***************************************************************************)
\* keyName := fmt.Sprintf("db-key-%s", database)
KeyName(database) == <<"db-key-", database>>

\* the identity written in the key file "good.key"; generated identities are 1, 2, ...
KeyFileIdentity == 0
NoIdentity == -1

\* os.ReadFile(keyPath) followed by age.ParseX25519Identity
ReadKeyFile(keyPath) ==
    CASE keyPath = "good.key" -> [err |-> OK, identity |-> KeyFileIdentity]
      [] keyPath = "bad.key" -> [err |-> ErrParseKey, identity |-> NoIdentity]
      [] OTHER -> [err |-> ErrReadKeyFile, identity |-> NoIdentity]

\* a variant that leaves the new entry as the only entry of the keyring
KeyringSet_DropsOthers(kr, keyName, identity) ==
    [k \in {keyName} |-> identity]

\* keyring.Set(KeyringService, keyName, identity)
KeyringSet(kr, keyName, identity) ==
    [k \in DOMAIN kr \cup {keyName} |-> IF k = keyName THEN identity ELSE kr[k]]

\* InitializeKey: the identity is loaded or generated, then stored in the keyring
InitializeKey(kr, fresh, database, keyPath) ==
    LET loaded == IF keyPath # "" THEN ReadKeyFile(keyPath)
                  ELSE [err |-> OK, identity |-> fresh]
    IN  IF loaded.err # OK
        THEN [err |-> loaded.err, keyring |-> kr]
        ELSE [err |-> OK, keyring |-> KeyringSet(kr, KeyName(database), loaded.identity)]

getIdentity(kr, database) ==
    IF KeyName(database) \in DOMAIN kr
    THEN [err |-> OK, identity |-> kr[KeyName(database)]]
    ELSE [err |-> ErrKeyNotFound, identity |-> NoIdentity]

\* an age ciphertext: the recipient it was encrypted to and the plaintext it protects
NilBlob == [rcpt |-> NoIdentity, plain |-> << >>]

Encrypt(kr, data, database) ==
    LET id == getIdentity(kr, database)
    IN  IF id.err # OK
        THEN [err |-> id.err, blob |-> NilBlob]
        ELSE [err |-> OK, blob |-> [rcpt |-> id.identity, plain |-> data]]

Decrypt(kr, blob, database) ==
    LET id == getIdentity(kr, database)
    IN  IF id.err # OK THEN [err |-> id.err, data |-> << >>]
        ELSE IF blob.rcpt # id.identity THEN [err |-> ErrDecrypt, data |-> << >>]
        ELSE [err |-> OK, data |-> blob.plain]

(***************************************************************************)
(* storage.go: one BadgerDB directory per database under the storage root  *)
(***************************************************************************)
\* filepath.Join(s.baseDir, database): the empty name is the storage root itself
\* and a trailing separator is cleaned away.  A path is the sequence of directory
\* names below the storage root.
getDBPath(database) ==
    CASE database = "" -> << >>
      [] database = "work/" -> <<"work">>
      [] OTHER -> <<database>>

\* os.Stat(path) succeeds
PathExists(d, path) ==
    IF path = << >> THEN d.root ELSE d.root /\ path[1] \in DOMAIN d.dirs

\* the keys and blobs in the directory of a database (none when it does not exist)
KVOf(d, database) ==
    LET path == getDBPath(database)
    IN  IF path # << >> /\ path[1] \in DOMAIN d.dirs THEN d.dirs[path[1]] ELSE << >>

\* os.MkdirAll(path): the directory and the storage root exist afterwards
MkdirAll(d, path) ==
    [root |-> TRUE,
     dirs |-> [x \in DOMAIN d.dirs \cup {path[1]} |->
                 IF x \in DOMAIN d.dirs THEN d.dirs[x] ELSE << >>]]

\* a variant without the os.Stat check of the read-only branch
openDB_NoStat(d, database, readonly) ==
    IF readonly
    THEN [err |-> OK, disk |-> d]
    ELSE [err |-> OK, disk |-> MkdirAll(d, getDBPath(database))]

\* openDB: read-only refuses an absent directory, read-write lets badger create it
openDB(d, database, readonly) ==
    IF readonly /\ ~PathExists(d, getDBPath(database))
    THEN [err |-> ErrSecretDBNotFound, disk |-> d]
    ELSE IF readonly
    THEN [err |-> OK, disk |-> d]
    ELSE [err |-> OK, disk |-> MkdirAll(d, getDBPath(database))]

\* a variant that writes only into a directory that exists already
StorageSet_NeedsDirectory(d, database, key, value) ==
    LET kv == KVOf(d, database)
        kv2 == [k \in DOMAIN kv \cup {key} |-> IF k = key THEN value ELSE kv[k]]
    IN  IF ~PathExists(d, getDBPath(database))
        THEN [err |-> ErrSecretDBNotFound, disk |-> d]
        ELSE [err |-> OK, disk |-> [d EXCEPT !.dirs[getDBPath(database)[1]] = kv2]]

\* a variant that updates a stored blob in place: the fields "value" and
\* "updated_at" of its document are overwritten, the others are kept
StorageSet_UpdatesInPlace(d, database, key, value) ==
    LET o == openDB(d, database, FALSE)
        kv == KVOf(o.disk, database)
        merged == [rcpt |-> value.rcpt,
                   plain |-> [f \in DOMAIN kv[key].plain \cup DOMAIN value.plain |->
                                IF f \in {"value", "updated_at"} \/ f \notin DOMAIN kv[key].plain
                                THEN value.plain[f] ELSE kv[key].plain[f]]]
        kv2 == [k \in DOMAIN kv \cup {key} |->
                  IF k # key THEN kv[k]
                  ELSE IF key \in DOMAIN kv THEN merged ELSE value]
    IN  [err |-> OK, disk |-> [o.disk EXCEPT !.dirs[getDBPath(database)[1]] = kv2]]

\* a variant that leaves the blob of a key that is stored already
StorageSet_KeepsFirst(d, database, key, value) ==
    LET o == openDB(d, database, FALSE)
        kv == KVOf(o.disk, database)
        kv2 == [k \in DOMAIN kv \cup {key} |-> IF k \in DOMAIN kv THEN kv[k] ELSE value]
    IN  [err |-> OK, disk |-> [o.disk EXCEPT !.dirs[getDBPath(database)[1]] = kv2]]

StorageSet(d, database, key, value) ==
    LET o == openDB(d, database, FALSE)
        kv == KVOf(o.disk, database)
        kv2 == [k \in DOMAIN kv \cup {key} |-> IF k = key THEN value ELSE kv[k]]
    IN  [err |-> OK, disk |-> [o.disk EXCEPT !.dirs[getDBPath(database)[1]] = kv2]]

\* a variant that reports an absent directory like an absent key
StorageGet_AbsentDirIsAbsentKey(d, database, key) ==
    IF key \notin DOMAIN KVOf(d, database)
    THEN [err |-> ErrRecordNotFound, value |-> NilBlob]
    ELSE [err |-> OK, value |-> KVOf(d, database)[key]]

StorageGet(d, database, key) ==
    LET o == openDB(d, database, TRUE)
    IN  IF o.err # OK THEN [err |-> o.err, value |-> NilBlob]
        ELSE IF key \notin DOMAIN KVOf(d, database)
        THEN [err |-> ErrRecordNotFound, value |-> NilBlob]
        ELSE [err |-> OK, value |-> KVOf(d, database)[key]]

\* the bytes of a key
KeyBytes(key) ==
    CASE key = "k1" -> <<107, 49>>
      [] key = "k2" -> <<107, 50>>
      [] key = "k10" -> <<107, 49, 48>>
      [] key = InvalidByte -> <<255>>
      [] key = ReplacementChar -> <<239, 191, 189>>
      [] OTHER -> << >>

\* bytes.Compare(a, b) < 0, the order badger keeps its keys in
BytesLess(a, b) ==
    \E i \in 1..(Len(b)) :
        /\ \A j \in 1..(i - 1) : j <= Len(a) /\ a[j] = b[j]
        /\ i > Len(a) \/ (i - 1 < Len(a) /\ a[i] < b[i])

Range(seq) == { seq[i] : i \in DOMAIN seq }

\* it.Rewind(); it.Valid(); it.Next(): the keys from the smallest on
RECURSIVE Iterate(_)
Iterate(keys) ==
    IF keys = {} THEN << >>
    ELSE LET first == CHOOSE x \in keys :
                         \A y \in keys \ {x} : BytesLess(KeyBytes(x), KeyBytes(y))
         IN  <<first>> \o Iterate(keys \ {first})

\* a variant that iterates from the largest key down
StorageList_Reversed(d, database) ==
    LET o == openDB(d, database, TRUE)
        up == Iterate(DOMAIN KVOf(d, database))
    IN  IF o.err # OK THEN [err |-> o.err, keys |-> << >>]
        ELSE [err |-> OK, keys |-> [i \in 1..Len(up) |-> up[Len(up) + 1 - i]]]

StorageList(d, database) ==
    LET o == openDB(d, database, TRUE)
    IN  IF o.err # OK THEN [err |-> o.err, keys |-> << >>]
        ELSE [err |-> OK, keys |-> Iterate(DOMAIN KVOf(d, database))]

\* a variant that refuses a database whose directory does not exist
StorageDelete_NeedsDirectory(d, database, key) ==
    LET kv == KVOf(d, database)
        kv2 == [k \in DOMAIN kv \ {key} |-> kv[k]]
    IN  IF ~PathExists(d, getDBPath(database))
        THEN [err |-> ErrSecretDBNotFound, disk |-> d]
        ELSE [err |-> OK, disk |-> [d EXCEPT !.dirs[getDBPath(database)[1]] = kv2]]

\* a variant that passes badger's ErrKeyNotFound on for a key that is not stored
StorageDelete_ErrOnAbsentKey(d, database, key) ==
    LET o == openDB(d, database, FALSE)
        kv == KVOf(o.disk, database)
        kv2 == [k \in DOMAIN kv \ {key} |-> kv[k]]
    IN  [err |-> IF key \in DOMAIN kv THEN OK ELSE ErrRecordNotFound,
         disk |-> [o.disk EXCEPT !.dirs[getDBPath(database)[1]] = kv2]]

StorageDelete(d, database, key) ==
    LET o == openDB(d, database, FALSE)
        kv == KVOf(o.disk, database)
        kv2 == [k \in DOMAIN kv \ {key} |-> kv[k]]
    IN  [err |-> OK, disk |-> [o.disk EXCEPT !.dirs[getDBPath(database)[1]] = kv2]]

\* strings.HasPrefix(entry.Name(), ".")
HasDotPrefix(n) == n \in {".cache"}

\* a variant that lists the hidden directories too
StorageListDatabases_WithHidden(d) ==
    IF ~d.root THEN {} ELSE DOMAIN d.dirs

StorageListDatabases(d) ==
    IF ~d.root THEN {} ELSE {n \in DOMAIN d.dirs : ~HasDotPrefix(n)}

\* a variant that removes the files of the database but leaves its directory
StorageDeleteDatabase_KeepsDir(d, database) ==
    IF getDBPath(database) = << >>
    THEN [d EXCEPT !.dirs = [x \in DOMAIN d.dirs |-> << >>]]
    ELSE [d EXCEPT !.dirs = [x \in DOMAIN d.dirs |->
                                IF x = getDBPath(database)[1] THEN << >> ELSE d.dirs[x]]]

\* os.RemoveAll(getDBPath(database))
StorageDeleteDatabase(d, database) ==
    IF getDBPath(database) = << >>
    THEN [root |-> FALSE, dirs |-> << >>]
    ELSE [d EXCEPT !.dirs = [x \in DOMAIN d.dirs \ {getDBPath(database)[1]} |-> d.dirs[x]]]

(***************************************************************************)
(* manager.go                                                              *)
(***************************************************************************)
GetSecret(c, kr, d, name, database) ==
    LET db == ResolveDatabase(c, database)
        got == StorageGet(d, db, name)
        dec == Decrypt(kr, got.value, db)
    IN  IF got.err # OK THEN [err |-> got.err, secret |-> NilSecret]
        ELSE IF dec.err # OK THEN [err |-> dec.err, secret |-> NilSecret]
        ELSE [err |-> OK, secret |-> UnmarshalSecret(dec.data)]

\* a variant that opens the store for writing before it serializes and encrypts
SetSecret_OpensStoreFirst(c, kr, d, name, args, database, t1, t2) ==
    LET db == ResolveDatabase(c, database)
        existing == GetSecret(c, kr, d, name, db)
        createdAt == IF existing.err = OK THEN existing.secret.CreatedAt ELSE t1
        secret == [Name |-> name, Value |-> args.value, Note |-> args.note,
                   CreatedAt |-> createdAt, UpdatedAt |-> t2,
                   ExpiresAt |-> args.expiresAt]
        opened == openDB(d, db, FALSE).disk
        m == MarshalSecret(secret)
        enc == Encrypt(kr, m.data, db)
    IN  IF m.err # OK THEN [err |-> m.err, disk |-> opened]
        ELSE IF enc.err # OK THEN [err |-> enc.err, disk |-> opened]
        ELSE StorageSet(opened, db, name, enc.blob)

\* a variant that leaves createdAt at the zero time when there is no record to
\* take it from
SetSecret_ZeroCreatedAt(c, kr, d, name, args, database, t1, t2) ==
    LET db == ResolveDatabase(c, database)
        existing == GetSecret(c, kr, d, name, db)
        createdAt == IF existing.err = OK THEN existing.secret.CreatedAt ELSE 0
        secret == [Name |-> name, Value |-> args.value, Note |-> args.note,
                   CreatedAt |-> createdAt, UpdatedAt |-> t2,
                   ExpiresAt |-> args.expiresAt]
        m == MarshalSecret(secret)
        enc == Encrypt(kr, m.data, db)
    IN  IF m.err # OK THEN [err |-> m.err, disk |-> d]
        ELSE IF enc.err # OK THEN [err |-> enc.err, disk |-> d]
        ELSE StorageSet(d, db, name, enc.blob)

\* a variant that takes only "not found" for absence and returns any other failure
\* of the preliminary GetSecret
SetSecret_FailsOnUnreadable(c, kr, d, name, args, database, t1, t2) ==
    LET db == ResolveDatabase(c, database)
        existing == GetSecret(c, kr, d, name, db)
        createdAt == IF existing.err = OK THEN existing.secret.CreatedAt ELSE t1
        secret == [Name |-> name, Value |-> args.value, Note |-> args.note,
                   CreatedAt |-> createdAt, UpdatedAt |-> t2,
                   ExpiresAt |-> args.expiresAt]
        m == MarshalSecret(secret)
        enc == Encrypt(kr, m.data, db)
    IN  IF existing.err \notin {OK, ErrRecordNotFound, ErrSecretDBNotFound}
        THEN [err |-> existing.err, disk |-> d]
        ELSE IF m.err # OK THEN [err |-> m.err, disk |-> d]
        ELSE IF enc.err # OK THEN [err |-> enc.err, disk |-> d]
        ELSE StorageSet(d, db, name, enc.blob)

\* t1 and t2 are the two readings of time.Now() (manager.go:51 and :59)
SetSecret(c, kr, d, name, args, database, t1, t2) ==
    LET db == ResolveDatabase(c, database)
        existing == GetSecret(c, kr, d, name, db)
        createdAt == IF existing.err = OK THEN existing.secret.CreatedAt ELSE t1
        secret == [Name |-> name, Value |-> args.value, Note |-> args.note,
                   CreatedAt |-> createdAt, UpdatedAt |-> t2,
                   ExpiresAt |-> args.expiresAt]
        m == MarshalSecret(secret)
        enc == Encrypt(kr, m.data, db)
    IN  IF m.err # OK THEN [err |-> m.err, disk |-> d]
        ELSE IF enc.err # OK THEN [err |-> enc.err, disk |-> d]
        ELSE StorageSet(d, db, name, enc.blob)

\* a variant whose list item carries the value of the secret
ToListItem_WithValue(s, t) ==
    [Name |-> s.Name, Note |-> s.Note, CreatedAt |-> s.CreatedAt,
     UpdatedAt |-> s.UpdatedAt, ExpiresAt |-> s.ExpiresAt, Expired |-> IsExpired(s, t),
     Value |-> s.Value]

ToListItem(s, t) ==
    [Name |-> s.Name, Note |-> s.Note, CreatedAt |-> s.CreatedAt,
     UpdatedAt |-> s.UpdatedAt, ExpiresAt |-> s.ExpiresAt, Expired |-> IsExpired(s, t)]

\* a variant that looks the key of the database up before it lists
ListSecrets_NeedsKey(c, kr, d, database, t) ==
    LET db == ResolveDatabase(c, database)
        l == StorageList(d, db)
    IN  IF getIdentity(kr, db).err # OK THEN [err |-> getIdentity(kr, db).err, items |-> {}]
        ELSE IF l.err # OK THEN [err |-> l.err, items |-> {}]
        ELSE [err |-> OK,
              items |-> { ToListItem(GetSecret(c, kr, d, k, db).secret, t) :
                          k \in { x \in Range(l.keys) : GetSecret(c, kr, d, x, db).err = OK } }]

\* a variant that returns the first per-key failure instead of skipping the key
ListSecrets_AbortsOnFailure(c, kr, d, database, t) ==
    LET db == ResolveDatabase(c, database)
        l == StorageList(d, db)
        failing == { x \in Range(l.keys) : GetSecret(c, kr, d, x, db).err # OK }
    IN  IF l.err # OK THEN [err |-> l.err, items |-> {}]
        ELSE IF failing # {}
        THEN [err |-> GetSecret(c, kr, d, CHOOSE x \in failing : TRUE, db).err, items |-> {}]
        ELSE [err |-> OK,
              items |-> { ToListItem(GetSecret(c, kr, d, k, db).secret, t) : k \in Range(l.keys) }]

ListSecrets(c, kr, d, database, t) ==
    LET db == ResolveDatabase(c, database)
        l == StorageList(d, db)
    IN  IF l.err # OK THEN [err |-> l.err, items |-> {}]
        ELSE [err |-> OK,
              items |-> { ToListItem(GetSecret(c, kr, d, k, db).secret, t) :
                          k \in { x \in Range(l.keys) : GetSecret(c, kr, d, x, db).err = OK } }]

DeleteSecret(c, d, name, database) ==
    StorageDelete(d, ResolveDatabase(c, database), name)

(***************************************************************************)
(* indietool/config.go: the configuration of the program and the secrets   *)
(* directory derived from it.  A path is the sequence of its elements, a   *)
(* leading "" being the root: "/custom/path" is <<"", "custom", "path">>,   *)
(* and the empty string is the empty sequence.                             *)
(***************************************************************************)
NoPath == << >>
DefaultBaseDir == <<"~", ".config", "indietool">>
DefaultConfigFileLocation == Append(DefaultBaseDir, "indietool.yaml")
DefaultSecretDatabase == "default"
DefaultSecretLocation == Append(DefaultBaseDir, "secrets")
DefaultSecretClipboardTTL == 30

\* filepath.Dir: all but the last element; "." when nothing is left, the root stays
filepathDir(path) ==
    IF path = NoPath \/ (Len(path) = 1 /\ path[1] # "") THEN <<".">>
    ELSE IF Len(path) = 1 THEN path
    ELSE SubSeq(path, 1, Len(path) - 1)

\* filepath.Join(dir, elem), cleaned
filepathJoin(dir, elem) == IF dir = <<".">> THEN <<elem>> ELSE Append(dir, elem)

getSecretsDir(c) ==
    IF c.Path = NoPath THEN DefaultSecretLocation
    ELSE filepathJoin(filepathDir(c.Path), "secrets")

GetDefaultConfig ==
    LET c == [Path |-> DefaultConfigFileLocation,
              Secrets |-> [DefaultDatabase |-> DefaultSecretDatabase, StorageDir |-> NoPath,
                           ClipboardTTL |-> DefaultSecretClipboardTTL, MaskOutput |-> TRUE]]
    IN  [c EXCEPT !.Secrets.StorageDir = getSecretsDir(c)]

\* the configuration after GetSecretsConfig has filled in the defaults
GetSecretsConfig(c) ==
    [c EXCEPT !.Secrets =
        [DefaultDatabase |-> IF @.DefaultDatabase = "" THEN DefaultSecretDatabase
                             ELSE @.DefaultDatabase,
         ClipboardTTL |-> IF @.ClipboardTTL = 0 THEN DefaultSecretClipboardTTL
                          ELSE @.ClipboardTTL,
         MaskOutput |-> TRUE,
         StorageDir |-> IF @.StorageDir = NoPath \/ @.StorageDir = DefaultSecretLocation
                        THEN getSecretsDir(c) ELSE @.StorageDir]]

\* the processes that use the store at the same time
Procs == {1, 2}

(***************************************************************************)
(* The state machine: one action per Manager operation that changes the    *)
(* keyring or the disk.  GetSecret, ListSecrets and ListDatabases change   *)
(* nothing: they are the operators above, evaluated on the current state.  *)
(***************************************************************************)
\* the configurations the manager is constructed with (no default database configured)
Configs == { [DefaultDatabase |-> ""] }

NilArgs == [value |-> << >>, note |-> << >>, expiresAt |-> NoExpiry]

\* a call record: the operation, its arguments, its result, and what it found:
\* stored = the names stored in the database before the call,
\* hadKey = the keyring held an entry for the database before the call,
\* replaced = the blob the write of a concurrent SetSecret has replaced
NoCall ==
    [op |-> "none", database |-> "", name |-> "", args |-> NilArgs, keyPath |-> "",
     err |-> OK, t1 |-> 0, t2 |-> 0, stored |-> {}, hadKey |-> FALSE,
     replaced |-> NilBlob]

\* a process that is not inside SetSecret
IdleCall == [pc |-> "idle"]

NoRun == [active |-> FALSE, first |-> 0, last |-> 0, value |-> << >>]

Databases == DatabaseArgs \ {""}

\* the database arguments whose records live in the directory of db
ArgsOf(c, db) ==
    { a \in DatabaseArgs : getDBPath(ResolveDatabase(c, a)) = getDBPath(db) }

StoredNames(d, db) == DOMAIN KVOf(d, db)

Init ==
    /\ config \in Configs
    /\ cfg = GetDefaultConfig
    /\ calls = [p \in Procs |-> IdleCall]
    /\ keyring = << >>
    /\ disk = [root |-> TRUE, dirs |-> << >>]
    /\ now = 0
    /\ nextKey = 1
    /\ steps = 0
    /\ last = NoCall
    /\ hist = [run |-> [id \in Databases \X Names |-> NoRun],
               deleted |-> {}, everSet |-> {}, written |-> {}, removed |-> {}, userDir |-> FALSE,
               latest |-> << >>]

\* a variant whose clock may also be set back between two calls
Tick_SetBack ==
    /\ steps < MaxSteps
    /\ now' \in (0..MaxTime) \ {now}
    /\ steps' = steps + 1
    /\ last' = [NoCall EXCEPT !.op = "Tick"]
    /\ UNCHANGED <<cfg, calls, config, keyring, disk, nextKey, hist>>

\* time passes between two calls
Tick ==
    /\ steps < MaxSteps
    /\ now < MaxTime
    /\ now' = now + 1
    /\ steps' = steps + 1
    /\ last' = [NoCall EXCEPT !.op = "Tick"]
    /\ UNCHANGED <<cfg, calls, config, keyring, disk, nextKey, hist>>

InitDatabaseCall(database, keyPath) ==
    LET r == InitializeKey(keyring, nextKey, database, keyPath)
    IN  /\ steps < MaxSteps
        /\ keyPath = "" => nextKey <= MaxKeys
        /\ keyring' = r.keyring
        /\ nextKey' = IF keyPath = "" THEN nextKey + 1 ELSE nextKey
        /\ steps' = steps + 1
        /\ last' = [NoCall EXCEPT !.op = "InitDatabase", !.database = database,
                                  !.keyPath = keyPath, !.err = r.err,
                                  !.hadKey = KeyName(database) \in DOMAIN keyring]
        /\ UNCHANGED <<cfg, calls, config, disk, now, hist>>

SetSecretCall(name, args, database) ==
    \E t2 \in {now, now + 1} :
        LET r == SetSecret(config, keyring, disk, name, args, database, now, t2)
            db == ResolveDatabase(config, database)
        IN  /\ steps < MaxSteps
            /\ t2 <= MaxTime
            /\ disk' = r.disk
            /\ now' = t2
            /\ steps' = steps + 1
            /\ last' = [NoCall EXCEPT !.op = "SetSecret", !.database = database,
                                      !.name = name, !.args = args, !.err = r.err,
                                      !.t1 = now, !.t2 = t2,
                                      !.stored = StoredNames(disk, db),
                                      !.hadKey = KeyName(db) \in DOMAIN keyring]
            /\ hist' = IF r.err # OK THEN hist
                       ELSE [hist EXCEPT
                               !.run[<<db, name>>] =
                                   [active |-> TRUE,
                                    first |-> IF @.active THEN @.first ELSE now,
                                    last |-> t2,
                                    value |-> args.value],
                               !.deleted = @ \ ArgsOf(config, db),
                               !.everSet = @ \cup ArgsOf(config, db),
                               !.written = @ \cup ArgsOf(config, db)]
            /\ UNCHANGED <<cfg, calls, config, keyring, nextKey>>

DeleteSecretCall(name, database) ==
    LET r == DeleteSecret(config, disk, name, database)
        db == ResolveDatabase(config, database)
    IN  /\ steps < MaxSteps
        /\ disk' = r.disk
        /\ steps' = steps + 1
        /\ last' = [NoCall EXCEPT !.op = "DeleteSecret", !.database = database,
                                  !.name = name, !.err = r.err,
                                  !.stored = StoredNames(disk, db),
                                  !.hadKey = KeyName(db) \in DOMAIN keyring]
        /\ hist' = [hist EXCEPT
                      !.run = [id \in Databases \X Names |->
                                 IF id[1] \in ArgsOf(config, db) /\ id[2] = name
                                 THEN NoRun ELSE @[id]],
                      !.deleted = @ \ ArgsOf(config, db),
                      !.written = @ \cup ArgsOf(config, db),
                      !.removed = IF name \in StoredNames(disk, db)
                                  THEN @ \cup {<<db, name, KVOf(disk, db)[name].plain["created_at"].t>>}
                                  ELSE @]
        /\ UNCHANGED <<cfg, calls, config, keyring, now, nextKey>>

DeleteDatabaseCall(database) ==
    /\ steps < MaxSteps
    /\ disk' = StorageDeleteDatabase(disk, database)
    /\ steps' = steps + 1
    /\ last' = [NoCall EXCEPT !.op = "DeleteDatabase", !.database = database,
                              !.stored = StoredNames(disk, ResolveDatabase(config, database)),
                              !.hadKey = KeyName(database) \in DOMAIN keyring]
    /\ hist' = [hist EXCEPT
                  !.run = [id \in Databases \X Names |->
                             IF database = "" \/ id[1] \in ArgsOf(config, database)
                             THEN NoRun ELSE @[id]],
                  !.deleted = @ \cup {database}]
    /\ UNCHANGED <<cfg, calls, config, keyring, now, nextKey>>

Next ==
    \/ Tick
    \/ \E database \in DatabaseArgs, keyPath \in KeyPaths : InitDatabaseCall(database, keyPath)
    \/ \E name \in Names, args \in SecretArgs, database \in DatabaseArgs :
          SetSecretCall(name, args, database)
    \/ \E name \in Names, database \in DatabaseArgs : DeleteSecretCall(name, database)
    \/ \E database \in DatabaseArgs : DeleteDatabaseCall(database)

Spec == Init /\ [][Next]_vars

(***************************************************************************)
(* A manager constructed over the store an earlier run of the program has  *)
(* left behind: database "work" was given the key of the key file and      *)
(* SetSecret has stored "k1" in it.  The keyring and the disk are computed *)
(* with the operations themselves.                                         *)
(***************************************************************************)
ExistingArgs == [value |-> <<"a">>, note |-> << >>, expiresAt |-> NoExpiry]

ExistingKeyring == InitializeKey(<< >>, 1, "work", "good.key").keyring

ExistingDisk(c) ==
    SetSecret(c, ExistingKeyring, [root |-> TRUE, dirs |-> << >>],
              "k1", ExistingArgs, "work", 0, 0).disk

InitExisting ==
    /\ config \in Configs
    /\ cfg = GetDefaultConfig
    /\ calls = [p \in Procs |-> IdleCall]
    /\ keyring = ExistingKeyring
    /\ disk = ExistingDisk(config)
    /\ now = 0
    /\ nextKey = 1
    /\ steps = 0
    /\ last = NoCall
    /\ hist = [run |-> [id \in Databases \X Names |->
                          IF id = <<"work", "k1">>
                          THEN [active |-> TRUE, first |-> 0, last |-> 0,
                                value |-> ExistingArgs.value]
                          ELSE NoRun],
               deleted |-> {},
               everSet |-> ArgsOf(config, "work"),
               written |-> ArgsOf(config, "work"),
               removed |-> {}, userDir |-> FALSE,
               latest |-> << >>]

SpecExisting == InitExisting /\ [][Next]_vars

(***************************************************************************)
(* cmd: the `secrets init` command.  The sources hold two definitions of    *)
(* initSecrets: secrets_init.go asks Manager.HasDatabaseKey before it       *)
(* calls InitDatabase, config_add_provider.go calls InitDatabase at once.   *)
(* Either may be the one the command runs.                                  *)
(***************************************************************************)
ErrRefuseOverwrite == "refusing to overwrite existing encryption key"

\* Manager.HasDatabaseKey: an entry for the database exists in the keyring
HasDatabaseKey(kr, database) == KeyName(database) \in DOMAIN kr

\* initSecrets of secrets_init.go
initSecrets(c, kr, fresh, keyPath) ==
    LET database == GetDefaultDatabase(c)
        r == InitializeKey(kr, fresh, database, keyPath)
    IN  IF HasDatabaseKey(kr, database)
        THEN [err |-> ErrRefuseOverwrite, keyring |-> kr, generated |-> FALSE]
        ELSE [err |-> r.err, keyring |-> r.keyring, generated |-> keyPath = ""]

\* initSecrets of config_add_provider.go
initSecretsUnchecked(c, kr, fresh, keyPath) ==
    LET database == GetDefaultDatabase(c)
        r == InitializeKey(kr, fresh, database, keyPath)
    IN  [err |-> r.err, keyring |-> r.keyring, generated |-> keyPath = ""]

\* one run of `secrets init [key-path]` with the result r of its initSecrets
SecretsInitRun(keyPath, r) ==
    /\ steps < MaxSteps
    /\ r.generated => nextKey <= MaxKeys
    /\ keyring' = r.keyring
    /\ nextKey' = IF r.generated THEN nextKey + 1 ELSE nextKey
    /\ steps' = steps + 1
    /\ last' = [NoCall EXCEPT !.op = "secrets init",
                              !.database = GetDefaultDatabase(config),
                              !.keyPath = keyPath, !.err = r.err,
                              !.hadKey = KeyName(GetDefaultDatabase(config)) \in DOMAIN keyring]
    /\ UNCHANGED <<cfg, calls, config, disk, now, hist>>

SecretsInitCmd(keyPath) ==
    SecretsInitRun(keyPath, initSecrets(config, keyring, nextKey, keyPath))

SecretsInitCmdUnchecked(keyPath) ==
    SecretsInitRun(keyPath, initSecretsUnchecked(config, keyring, nextKey, keyPath))

\* keys are created by `secrets init` only; the other steps are the Manager
\* operations on the records
NextCmd ==
    \/ Tick
    \/ \E keyPath \in KeyPaths : SecretsInitCmd(keyPath)
    \/ \E keyPath \in KeyPaths : SecretsInitCmdUnchecked(keyPath)
    \/ \E name \in Names, args \in SecretArgs, database \in DatabaseArgs :
          SetSecretCall(name, args, database)
    \/ \E name \in Names, database \in DatabaseArgs : DeleteSecretCall(name, database)
    \/ \E database \in DatabaseArgs : DeleteDatabaseCall(database)

SpecCmd == Init /\ [][NextCmd]_vars

(***************************************************************************)
(* manager.go: SetSecret run by several processes at once.  A call is      *)
(* three steps: the read of the existing record that decides createdAt     *)
(* (manager.go:46-52), the serialization and encryption of the new record  *)
(* (54-67), and the write (70).  Each storage call opens the database,     *)
(* runs one transaction and closes it, so it is one step; the steps of     *)
(* different processes interleave freely.  steps counts the calls begun    *)
(* and the clock ticks.                                                    *)
(***************************************************************************)
\* a variant that stamps every write with the current time
createdAt_AlwaysNow(existing, t) == t

\* createdAt of the record to write: the existing record's, or time.Now()
createdAt(existing, t) == IF existing.err = OK THEN existing.secret.CreatedAt ELSE t

SetSecretRead(p, name, args, database) ==
    LET db == ResolveDatabase(config, database)
        existing == GetSecret(config, keyring, disk, name, db)
    IN  /\ steps < MaxSteps
        /\ calls[p].pc = "idle"
        /\ calls' = [calls EXCEPT ![p] =
                        [pc |-> "read", name |-> name, args |-> args, database |-> database,
                         db |-> db, existing |-> existing,
                         createdAt |-> createdAt(existing, now), t1 |-> now]]
        /\ steps' = steps + 1
        /\ last' = [NoCall EXCEPT !.op = "SetSecret read", !.database = database,
                                  !.name = name, !.args = args, !.t1 = now]
        /\ UNCHANGED <<cfg, config, keyring, disk, now, nextKey, hist>>

SetSecretSeal(p) ==
    LET c == calls[p]
        secret == [Name |-> c.name, Value |-> c.args.value, Note |-> c.args.note,
                   CreatedAt |-> c.createdAt, UpdatedAt |-> now,
                   ExpiresAt |-> c.args.expiresAt]
        m == MarshalSecret(secret)
        enc == Encrypt(keyring, m.data, c.db)
        err == IF m.err # OK THEN m.err ELSE enc.err
    IN  /\ c.pc = "read"
        /\ IF err # OK
           THEN /\ calls' = [calls EXCEPT ![p] = IdleCall]
                /\ last' = [NoCall EXCEPT !.op = "SetSecret", !.database = c.database,
                                          !.name = c.name, !.args = c.args, !.err = err,
                                          !.t1 = c.t1, !.t2 = now]
           ELSE /\ calls' = [calls EXCEPT ![p] =
                                [c EXCEPT !.pc = "sealed"] @@ [blob |-> enc.blob, t2 |-> now]]
                /\ last' = [NoCall EXCEPT !.op = "SetSecret seal", !.database = c.database,
                                          !.name = c.name, !.args = c.args,
                                          !.t1 = c.t1, !.t2 = now]
        /\ UNCHANGED <<cfg, config, keyring, disk, now, nextKey, steps, hist>>

SetSecretStore(p) ==
    LET c == calls[p]
        r == StorageSet(disk, c.db, c.name, c.blob)
    IN  /\ c.pc = "sealed"
        /\ disk' = r.disk
        /\ calls' = [calls EXCEPT ![p] = IdleCall]
        /\ last' = [NoCall EXCEPT !.op = "SetSecret", !.database = c.database,
                                  !.name = c.name, !.args = c.args, !.err = r.err,
                                  !.t1 = c.t1, !.t2 = c.t2,
                                  !.stored = StoredNames(disk, c.db),
                                  !.hadKey = KeyName(c.db) \in DOMAIN keyring,
                                  !.replaced = IF c.name \in StoredNames(disk, c.db)
                                               THEN KVOf(disk, c.db)[c.name]
                                               ELSE NilBlob]
        /\ hist' = IF r.err # OK THEN hist
                   ELSE [hist EXCEPT
                           !.run[<<c.db, c.name>>] =
                               [active |-> TRUE,
                                first |-> IF @.active THEN @.first ELSE c.createdAt,
                                last |-> c.t2,
                                value |-> c.args.value],
                           !.deleted = @ \ ArgsOf(config, c.db),
                           !.everSet = @ \cup ArgsOf(config, c.db),
                           !.written = @ \cup ArgsOf(config, c.db)]
        /\ UNCHANGED <<cfg, config, keyring, now, nextKey, steps>>

NextConcurrent ==
    \/ Tick
    \/ \E p \in Procs, name \in Names, args \in SecretArgs, database \in DatabaseArgs :
          SetSecretRead(p, name, args, database)
    \/ \E p \in Procs : SetSecretSeal(p)
    \/ \E p \in Procs : SetSecretStore(p)

SpecConcurrent == InitExisting /\ [][NextConcurrent]_vars

(***************************************************************************)
(* storage.go: the RecordStore called directly, with the database names    *)
(* the Manager passes to it (never the empty name, except that             *)
(* DeleteDatabase passes its argument on as it is), keys and opaque blobs. *)
(* InitDatabase is among the steps as the call that must leave the store   *)
(* alone.                                                                  *)
(***************************************************************************)
StoreDatabases == {"default", "work", "work/", ".cache"}
StoreKeys == Names \cup {"k10"}
StoreBlobs == { [rcpt |-> 0, plain |-> << >>], [rcpt |-> 1, plain |-> << >>] }

StoreStep(op, database, key, err) ==
    /\ steps < MaxSteps
    /\ steps' = steps + 1
    /\ last' = [NoCall EXCEPT !.op = op, !.database = database, !.name = key, !.err = err,
                              !.stored = StoredNames(disk, database)]
    /\ UNCHANGED <<cfg, calls, config, keyring, now, nextKey>>

StorageSetCall(database, key, value) ==
    LET r == StorageSet(disk, database, key, value)
        id == <<getDBPath(database), key>>
    IN  /\ disk' = r.disk
        /\ hist' = [hist EXCEPT !.latest =
                      [x \in DOMAIN @ \cup {id} |->
                         IF x # id THEN @[x]
                         ELSE [blob |-> value,
                               sets |-> IF id \in DOMAIN @ THEN @[id].sets + 1 ELSE 1]]]
        /\ StoreStep("Storage.Set", database, key, r.err)

StorageDeleteCall(database, key) ==
    LET r == StorageDelete(disk, database, key)
        id == <<getDBPath(database), key>>
    IN  /\ disk' = r.disk
        /\ hist' = [hist EXCEPT !.latest = [x \in DOMAIN @ \ {id} |-> @[x]]]
        /\ StoreStep("Storage.Delete", database, key, r.err)

StorageDeleteDatabaseCall(database) ==
    /\ disk' = StorageDeleteDatabase(disk, database)
    /\ hist' = [hist EXCEPT !.latest =
                  [x \in { y \in DOMAIN @ : database # "" /\ y[1] # getDBPath(database) } |->
                     @[x]]]
    /\ StoreStep("Storage.DeleteDatabase", database, "", OK)

NextStore ==
    \/ \E database \in StoreDatabases, key \in StoreKeys, value \in StoreBlobs :
          StorageSetCall(database, key, value)
    \/ \E database \in StoreDatabases, key \in StoreKeys : StorageDeleteCall(database, key)
    \/ \E database \in StoreDatabases \cup {""} : StorageDeleteDatabaseCall(database)
    \/ \E database \in StoreDatabases, keyPath \in KeyPaths :
          InitDatabaseCall(database, keyPath)

SpecStore == Init /\ [][NextStore]_vars

(***************************************************************************)
(* manager.go: SetSecret called with the names a command line can carry:   *)
(* any byte string, so also a name that is not valid UTF-8 and the name    *)
(* that consists of U+FFFD.  The store is the one an earlier run has left. *)
(***************************************************************************)
RawNames == {"k1", InvalidByte, ReplacementChar}

SetSecretRawCall(name, args, database) ==
    \E t2 \in {now, now + 1} :
        LET r == SetSecret(config, keyring, disk, name, args, database, now, t2)
            db == ResolveDatabase(config, database)
        IN  /\ steps < MaxSteps
            /\ t2 <= MaxTime
            /\ disk' = r.disk
            /\ now' = t2
            /\ steps' = steps + 1
            /\ last' = [NoCall EXCEPT !.op = "SetSecret", !.database = database,
                                      !.name = name, !.args = args, !.err = r.err,
                                      !.t1 = now, !.t2 = t2,
                                      !.stored = StoredNames(disk, db),
                                      !.hadKey = KeyName(db) \in DOMAIN keyring]
            /\ UNCHANGED <<cfg, calls, config, keyring, nextKey, hist>>

NextRawNames ==
    \/ Tick
    \/ \E database \in DatabaseArgs, keyPath \in KeyPaths : InitDatabaseCall(database, keyPath)
    \/ \E name \in RawNames, args \in SecretArgs, database \in DatabaseArgs :
          SetSecretRawCall(name, args, database)

SpecRawNames == InitExisting /\ [][NextRawNames]_vars

(***************************************************************************)
(* The configuration as the commands build it: GetDefaultConfig or         *)
(* LoadFromPath (the secrets section as the file gives it), the config     *)
(* path and the storage directory reassigned, and GetSecretsConfig, which  *)
(* every secrets command calls before it constructs the manager.           *)
(***************************************************************************)
ConfigPaths ==
    { NoPath, DefaultConfigFileLocation,
      <<"", "home", "u", ".config", "indietool", "indietool.yaml">>,
      <<"", "custom", "path", "myapp.yaml">>, <<"indietool.yaml">> }

\* storage directories a user writes into the configuration
UserStorageDirs ==
    { DefaultSecretLocation, <<"", "completely", "different", "secrets">> }

\* the secrets sections a configuration file can hold (an absent field is its zero value)
SecretsSections ==
    [DefaultDatabase : {"", "work"}, StorageDir : {NoPath} \cup UserStorageDirs,
     ClipboardTTL : {0, 15}, MaskOutput : BOOLEAN]

ConfigStep(op) ==
    /\ steps < MaxSteps
    /\ steps' = steps + 1
    /\ last' = [NoCall EXCEPT !.op = op]
    /\ UNCHANGED <<calls, config, keyring, disk, now, nextKey>>

GetDefaultConfigCall ==
    /\ cfg' = GetDefaultConfig
    /\ hist' = [hist EXCEPT !.userDir = FALSE]
    /\ ConfigStep("GetDefaultConfig")

LoadFromPathCall(path, section) ==
    /\ path # NoPath
    /\ cfg' = [Path |-> path, Secrets |-> section]
    /\ hist' = [hist EXCEPT !.userDir = section.StorageDir # NoPath]
    /\ ConfigStep("LoadFromPath")

\* cfg.Path = path
SetPath(path) ==
    /\ cfg' = [cfg EXCEPT !.Path = path]
    /\ UNCHANGED hist
    /\ ConfigStep("SetPath")

\* cfg.Secrets.StorageDir = dir
SetStorageDir(dir) ==
    /\ cfg' = [cfg EXCEPT !.Secrets.StorageDir = dir]
    /\ hist' = [hist EXCEPT !.userDir = TRUE]
    /\ ConfigStep("SetStorageDir")

GetSecretsConfigCall ==
    /\ cfg' = GetSecretsConfig(cfg)
    /\ UNCHANGED hist
    /\ ConfigStep("GetSecretsConfig")

NextConfig ==
    \/ GetDefaultConfigCall
    \/ \E path \in ConfigPaths, section \in SecretsSections : LoadFromPathCall(path, section)
    \/ \E path \in ConfigPaths : SetPath(path)
    \/ \E dir \in UserStorageDirs : SetStorageDir(dir)
    \/ GetSecretsConfigCall

SpecConfig == Init /\ [][NextConfig]_vars

(***************************************************************************)
(* types.go: identifiers name[@database].  An identifier is a sequence of  *)
(* pieces, each the separator "@" or a string without "@"; Join is the     *)
(* string the pieces spell.                                                *)
(***************************************************************************)
RECURSIVE Join(_)
Join(pieces) == IF pieces = << >> THEN "" ELSE Head(pieces) \o Join(Tail(pieces))

Identifiers ==
    { <<"k1">>, <<"k2">>, <<"k1", "@">>, <<"k1", "@", "default">>,
      <<"k2", "@", "work">>, <<"k1", "@", "work", "/">>,
      <<"k1", "@", "work", "@", "k2">>, <<"@", "work">> }

\* the positions of the separator in an identifier
AtPositions(identifier) == { i \in DOMAIN identifier : identifier[i] = "@" }

\* a variant that splits at the last "@"
ParseSecretIdentifier_AtLastSeparator(identifier) ==
    IF AtPositions(identifier) = {}
    THEN [name |-> Join(identifier), database |-> ""]
    ELSE LET at == CHOOSE i \in AtPositions(identifier) :
                      \A j \in AtPositions(identifier) : j <= i
         IN  [name |-> Join(SubSeq(identifier, 1, at - 1)),
              database |-> Join(SubSeq(identifier, at + 1, Len(identifier)))]

\* strings.SplitN(identifier, "@", 2): name is parts[0], database is parts[1] or ""
ParseSecretIdentifier(identifier) ==
    IF AtPositions(identifier) = {}
    THEN [name |-> Join(identifier), database |-> ""]
    ELSE LET at == CHOOSE i \in AtPositions(identifier) :
                      \A j \in AtPositions(identifier) : i <= j
         IN  [name |-> Join(SubSeq(identifier, 1, at - 1)),
              database |-> Join(SubSeq(identifier, at + 1, Len(identifier)))]

\* the configurations with and without a configured default database
ConfigsWithDefault == { [DefaultDatabase |-> ""], [DefaultDatabase |-> "work"] }

InitIdentifier ==
    /\ config \in ConfigsWithDefault
    /\ cfg = GetDefaultConfig
    /\ calls = [p \in Procs |-> IdleCall]
    /\ keyring = << >>
    /\ disk = [root |-> TRUE, dirs |-> << >>]
    /\ now = 0
    /\ nextKey = 1
    /\ steps = 0
    /\ last = NoCall
    /\ hist = [run |-> [id \in Databases \X Names |-> NoRun],
               deleted |-> {}, everSet |-> {}, written |-> {}, removed |-> {}, userDir |-> FALSE,
               latest |-> << >>]

\* SetSecret called with a parsed identifier, as `secrets set` calls it
SetSecretAt(identifier, args) ==
    LET parsed == ParseSecretIdentifier(identifier)
    IN  /\ parsed.name \in Names
        /\ parsed.database \in DatabaseArgs
        /\ SetSecretCall(parsed.name, args, parsed.database)

NextIdentifier ==
    \/ Tick
    \/ \E database \in DatabaseArgs, keyPath \in KeyPaths : InitDatabaseCall(database, keyPath)
    \/ \E name \in Names, database \in DatabaseArgs : DeleteSecretCall(name, database)
    \/ \E identifier \in Identifiers, args \in SecretArgs : SetSecretAt(identifier, args)

SpecIdentifier == InitIdentifier /\ [][NextIdentifier]_vars

(***************************************************************************)
(* Properties                                                              *)
(***************************************************************************)
\* GetSecret and ListDatabases on the current state
Get(name, database) == GetSecret(config, keyring, disk, name, database)
ListDatabases == StorageListDatabases(disk)
HasKey(database) == KeyName(database) \in DOMAIN keyring

\* this step is a call of op
Called(op) == steps' = steps + 1 /\ last'.op = op

\* C1: InitDatabase(D) when a key for D already exists returns KeyAlreadyExists and
\* leaves the stored key unchanged, so every secret of D is still returned by
\* GetSecret with its original value.
C1_ReinitRefused ==
    [][ (Called("InitDatabase") /\ last'.hadKey /\ last'.keyPath \in {"", "good.key"})
        => /\ last'.err = ErrKeyAlreadyExists
           /\ keyring' = keyring
           /\ \A name \in Names :
                 GetSecret(config', keyring', disk', name, last'.database)
                   = GetSecret(config, keyring, disk, name, last'.database) ]_vars

\* C2: right after a successful SetSecret(name, value, D, note, expiresAt),
\* GetSecret(name, D) returns the value, note and expiresAt of the call.
C2_RoundTrip ==
    (last.op = "SetSecret" /\ last.err = OK)
    => LET g == Get(last.name, last.database)
       IN  /\ g.err = OK
           /\ g.secret.Value = last.args.value
           /\ g.secret.Note = last.args.note
           /\ g.secret.ExpiresAt = last.args.expiresAt

\* C3: after successful SetSecret calls to one (database, name) with no DeleteSecret
\* or DeleteDatabase in between, GetSecret returns createdAt = the time of the first
\* call, updatedAt = the time of the last call and the value of the last call.
C3_CreatedAtPreserved ==
    \A id \in Databases \X Names :
        hist.run[id].active
        => LET g == Get(id[2], id[1])
           IN  /\ g.err = OK
               /\ g.secret.CreatedAt = hist.run[id].first
               /\ g.secret.UpdatedAt = hist.run[id].last
               /\ g.secret.Value = hist.run[id].value

\* the database a call acts on: InitDatabase takes its argument as it is, the
\* other operations resolve "" to the default database
Target(call) ==
    IF call.op = "InitDatabase" THEN call.database
    ELSE ResolveDatabase(config, call.database)

\* C4: SetSecret, DeleteSecret and InitDatabase applied to dbX leave the directory,
\* the records and the key of every other database dbY unchanged, so GetSecret on
\* dbY returns what it returned before.
C4_Isolation ==
    [][ \A dbY \in DatabaseArgs :
          ((Called("SetSecret") \/ Called("DeleteSecret") \/ Called("InitDatabase"))
             /\ Target(last') # dbY)
          => /\ getIdentity(keyring', dbY) = getIdentity(keyring, dbY)
             /\ dbY # "" =>
                  /\ PathExists(disk', getDBPath(dbY)) = PathExists(disk, getDBPath(dbY))
                  /\ KVOf(disk', dbY) = KVOf(disk, dbY)
                  /\ \A name \in Names :
                        GetSecret(config', keyring', disk', name, dbY)
                          = GetSecret(config, keyring, disk, name, dbY) ]_vars

\* C5: a SetSecret that fails before the store write (serialization failure,
\* missing key) leaves the disk and the keyring as they were: no directory or
\* record is created and a record stored under the same name reads as before.
C5_FailedSetLeavesStore ==
    [][ (Called("SetSecret") /\ last'.err \in {ErrMarshal, ErrKeyNotFound})
        => /\ disk' = disk
           /\ keyring' = keyring
           /\ GetSecret(config', keyring', disk', last'.name, last'.database)
                = GetSecret(config, keyring, disk, last'.name, last'.database) ]_vars

\* C5 witness: a SetSecret failed in serialization over a stored, readable record
C5_Witness ==
    /\ last.op = "SetSecret"
    /\ last.err = ErrMarshal
    /\ last.name \in last.stored
    /\ Get(last.name, last.database).err = OK

\* D has no key and no SetSecret or DeleteSecret has been made to it
NeverInitialized(database) ==
    LET db == ResolveDatabase(config, database)
    IN  ~HasKey(db) /\ db \notin hist.written

\* C6 as stated: GetSecret on a never-initialized database returns KeyNotFound.
C6_NeverInitializedIsKeyNotFound ==
    \A database \in DatabaseArgs, name \in Names :
        NeverInitialized(database) => Get(name, database).err = ErrKeyNotFound

\* C6 amended: GetSecret on a never-initialized database returns DatabaseNotFound
\* (the store is opened, and its directory missed, before the key is looked up).
C6_NeverInitializedIsDatabaseNotFound ==
    \A database \in DatabaseArgs, name \in Names :
        NeverInitialized(database) => Get(name, database).err = ErrSecretDBNotFound

\* C6 witness: one database holds a secret while another was never initialized
C6_Witness ==
    /\ hist.everSet # {}
    /\ \E database \in Databases : NeverInitialized(database)

\* D was initialized with InitDatabase and no SetSecret has stored anything in it
InitializedEmpty(db) == HasKey(db) /\ db \notin hist.everSet

\* C7 as stated: GetSecret on an initialized database that holds no secrets returns
\* RecordNotFound, for every name.
C7_InitializedEmptyIsRecordNotFound ==
    \A db \in Databases, name \in Names :
        InitializedEmpty(db) => Get(name, db).err = ErrRecordNotFound

\* C7 amended: GetSecret on an initialized database that holds no secrets returns
\* DatabaseNotFound while the directory of the database does not exist (InitDatabase
\* creates none) and RecordNotFound once it exists, for every name.
C7_InitializedEmptyByDirectory ==
    \A db \in Databases, name \in Names :
        InitializedEmpty(db)
        => Get(name, db).err = IF PathExists(disk, getDBPath(db))
                               THEN ErrRecordNotFound
                               ELSE ErrSecretDBNotFound

\* C7 witness: InitDatabase has just given a database its key, nothing was stored
\* in it and it has no directory
C7_Witness ==
    /\ last.op = "InitDatabase"
    /\ last.err = OK
    /\ last.database \in Databases
    /\ InitializedEmpty(last.database)
    /\ ~PathExists(disk, getDBPath(last.database))

\* C8: the first SetSecret to a database that has no key creates the key and then
\* stores the secret successfully.
C8_KeyCreatedOnFirstUse ==
    [][ (Called("SetSecret") /\ ~last'.hadKey /\ last'.args.expiresAt.yearInRange)
        => /\ last'.err = OK
           /\ KeyName(ResolveDatabase(config, last'.database)) \in DOMAIN keyring'
           /\ GetSecret(config', keyring', disk', last'.name, last'.database).err = OK ]_vars

\* C9: after DeleteDatabase(D) and until the next write to D (a SetSecret that
\* stores, or a DeleteSecret, in the directory of D), ListDatabases() does not
\* contain D and GetSecret(name, D) returns DatabaseNotFound for every name.
C9_DeletedDatabaseIsGone ==
    \A database \in hist.deleted :
        /\ database \notin ListDatabases
        /\ getDBPath(database) # << >> => getDBPath(database)[1] \notin ListDatabases
        /\ \A name \in Names : Get(name, database).err = ErrSecretDBNotFound

\* C9 witness: DeleteDatabase has just removed a database that held secrets
C9_Witness ==
    /\ last.op = "DeleteDatabase"
    /\ last.database \in hist.deleted
    /\ last.stored # {}

\* C10: DeleteSecret(name, D) for a name that is not stored in D returns no error,
\* and a GetSecret(name, D) made after it returns RecordNotFound.
C10_DeleteAbsentIsNoError ==
    (last.op = "DeleteSecret" /\ last.name \notin last.stored)
    => /\ last.err = OK
       /\ Get(last.name, last.database).err = ErrRecordNotFound

\* C10 witness: DeleteSecret of a name that is not stored, on a database that
\* holds another secret
C10_Witness ==
    /\ last.op = "DeleteSecret"
    /\ last.name \notin last.stored
    /\ last.stored # {}

\* the record stored under name in db was encrypted to the key db has now
Readable(db, name) ==
    /\ name \in StoredNames(disk, db)
    /\ HasKey(db)
    /\ KVOf(disk, db)[name].rcpt = keyring[KeyName(db)]

\* C11: ListSecrets(D) on an existing database returns no error and exactly one
\* item for each stored secret that can be decrypted; an entry that cannot be
\* decrypted is skipped and does not abort the listing.
C11_ListSkipsCorrupted ==
    \A database \in DatabaseArgs :
        LET db == ResolveDatabase(config, database)
            l == ListSecrets(config, keyring, disk, database, now)
            valid == { n \in StoredNames(disk, db) : Readable(db, n) }
        IN  PathExists(disk, getDBPath(db))
            => /\ l.err = OK
               /\ { i.Name : i \in l.items } = valid
               /\ Cardinality(l.items) = Cardinality(valid)

\* C11 witness: a database holds a secret that can be decrypted and an entry that
\* cannot
C11_Witness ==
    \E db \in Databases :
        /\ \E n \in StoredNames(disk, db) : Readable(db, n)
        /\ \E n \in StoredNames(disk, db) : ~Readable(db, n)

\* the JSON document stored (encrypted) under name in db
StoredDoc(db, name) == KVOf(disk, db)[name].plain

\* the stored document carries an expiry and the clock is past it
PastExpiry(db, name) ==
    /\ "expires_at" \in DOMAIN StoredDoc(db, name)
    /\ now > StoredDoc(db, name)["expires_at"].t

\* C12: expiry is advisory.  A stored secret is returned by GetSecret with its
\* stored value whether or not its expiresAt is in the past, IsExpired (and the
\* Expired flag of its list item) is true exactly when expiresAt is set and
\* now > expiresAt, and the passing of time changes neither the stored records nor
\* what GetSecret returns.
C12_ExpiryIsAdvisory ==
    /\ [](\A db \in Databases, name \in Names :
            Readable(db, name)
            => LET g == Get(name, db)
               IN  /\ g.err = OK
                   /\ g.secret.Value = StoredDoc(db, name)["value"].s
                   /\ IsExpired(g.secret, now) <=> PastExpiry(db, name)
                   /\ \E i \in ListSecrets(config, keyring, disk, db, now).items :
                         i.Name = name /\ (i.Expired <=> PastExpiry(db, name)))
    /\ [][ Called("Tick")
           => /\ disk' = disk
              /\ \A db \in Databases, name \in Names :
                    GetSecret(config', keyring', disk', name, db)
                      = GetSecret(config, keyring, disk, name, db) ]_vars

\* C12 witness: the clock has moved past the expiry of a stored secret
C12_Witness ==
    /\ last.op = "Tick"
    /\ \E db \in Databases, name \in Names : Readable(db, name) /\ PastExpiry(db, name)

\* C13: each (database, name) follows Absent -Set-> Present -Delete-> Absent.  A
\* DeleteSecret of a stored name leaves GetSecret returning RecordNotFound, and a
\* successful SetSecret of a name that is not stored (never set, or set and deleted)
\* creates a secret whose createdAt is the time of that call.
C13_Lifecycle ==
    [][ /\ (Called("DeleteSecret") /\ last'.name \in last'.stored)
           => GetSecret(config', keyring', disk', last'.name, last'.database).err
                = ErrRecordNotFound
        /\ (Called("SetSecret") /\ last'.err = OK /\ last'.name \notin last'.stored)
           => LET g == GetSecret(config', keyring', disk', last'.name, last'.database)
              IN  g.err = OK /\ g.secret.CreatedAt = last'.t1 ]_vars

\* C13 witness: a SetSecret has just stored a name again that was set and deleted
\* before, at a time other than the createdAt of the deleted secret
C13_Witness ==
    /\ last.op = "SetSecret"
    /\ last.err = OK
    /\ last.name \notin last.stored
    /\ \E r \in hist.removed :
          /\ r[1] = ResolveDatabase(config, last.database)
          /\ r[2] = last.name
          /\ r[3] # last.t1
    /\ Get(last.name, last.database).secret.CreatedAt = last.t1

\* C14: DeleteDatabase(D) removes the directory of D and leaves the keyring as it
\* was, so when D has a key a SetSecret to D made right afterwards, with no
\* InitDatabase, succeeds and stores a record that is encrypted to that same key
\* and that GetSecret returns.
C14_DeleteDatabaseKeepsKey ==
    [][ Called("DeleteDatabase")
        => /\ keyring' = keyring
           /\ last'.database # "" => ~PathExists(disk', getDBPath(last'.database))
           /\ \A name \in Names, args \in SecretArgs :
                 LET db == ResolveDatabase(config, last'.database)
                     r == SetSecret(config', keyring', disk', name, args, db, now', now')
                 IN  (KeyName(db) \in DOMAIN keyring /\ args.expiresAt.yearInRange)
                     => /\ r.err = OK
                        /\ KVOf(r.disk, db)[name].rcpt = keyring[KeyName(db)]
                        /\ GetSecret(config', keyring', r.disk, name, db).err = OK ]_vars

\* C14 witness: DeleteDatabase has just removed a database that has a key and held
\* secrets
C14_Witness ==
    /\ last.op = "DeleteDatabase"
    /\ last.database # ""
    /\ HasKey(last.database)
    /\ last.stored # {}
    /\ ~PathExists(disk, getDBPath(last.database))

\* C15: InitDatabase(D) changes at most the keyring entry "db-key-D" (every other
\* entry stays as it was and at most one entry is added), the keyring holds at most
\* one entry per database name, and InitDatabase leaves the record store (the
\* directories ListDatabases returns and every stored record) unchanged.
C15_InitDatabaseFrame ==
    /\ [](\A database \in DatabaseArgs :
            Cardinality({ k \in DOMAIN keyring : k[2] = database }) <= 1)
    /\ [][ Called("InitDatabase")
           => /\ disk' = disk
              /\ StorageListDatabases(disk') = StorageListDatabases(disk)
              /\ DOMAIN keyring' \subseteq DOMAIN keyring \cup {KeyName(last'.database)}
              /\ Cardinality(DOMAIN keyring') <= Cardinality(DOMAIN keyring) + 1
              /\ \A k \in DOMAIN keyring :
                    /\ k \in DOMAIN keyring'
                    /\ k # KeyName(last'.database) => keyring'[k] = keyring[k] ]_vars

\* C15 witness: InitDatabase has just replaced the key of a database that holds
\* records while another database has a key of its own
C15_Witness ==
    /\ last.op = "InitDatabase"
    /\ last.err = OK
    /\ last.hadKey
    /\ StoredNames(disk, last.database) # {}
    /\ \E k \in DOMAIN keyring : k # KeyName(last.database)

\* the values a store can hold in place of the ones it holds
OtherValues == { <<"z">>, << >> }

\* the store d with the value field of every stored secret set to v
WithValues(d, v) ==
    [d EXCEPT !.dirs =
        [x \in DOMAIN d.dirs |->
            [k \in DOMAIN d.dirs[x] |->
                [d.dirs[x][k] EXCEPT !.plain =
                    [f \in DOMAIN d.dirs[x][k].plain |->
                        IF f = "value" THEN JStr(v) ELSE d.dirs[x][k].plain[f]]]]]]

\* C16: ListSecrets never exposes secret values.  For two stores that are identical
\* except for the value field of their secrets, ListSecrets(D) returns the same
\* result, and no item of it has a value field.
C16_ListHidesValues ==
    \A database \in DatabaseArgs, v \in OtherValues :
        LET l == ListSecrets(config, keyring, disk, database, now)
        IN  /\ ListSecrets(config, keyring, WithValues(disk, v), database, now) = l
            /\ \A i \in l.items :
                  DOMAIN i = {"Name", "Note", "CreatedAt", "UpdatedAt", "ExpiresAt", "Expired"}

\* C16 witness: ListSecrets returns an item for a secret whose value differs
\* between the two stores
C16_Witness ==
    \E db \in Databases, name \in Names, v \in OtherValues :
        /\ \E i \in ListSecrets(config, keyring, disk, db, now).items : i.Name = name
        /\ Get(name, db).err = OK
        /\ GetSecret(config, keyring, WithValues(disk, v), name, db).err = OK
        /\ GetSecret(config, keyring, WithValues(disk, v), name, db).secret.Value
             # Get(name, db).secret.Value

\* C17: `secrets init` never silently overwrites a key.  When a key exists for the
\* default database it returns "refusing to overwrite existing encryption key"
\* without calling InitDatabase (the keyring stays as it was and no key is
\* generated), so the stored key stays the one the first successful run wrote.
C17_SecretsInitNeverOverwrites ==
    [][ (Called("secrets init") /\ last'.hadKey)
        => /\ last'.err = ErrRefuseOverwrite
           /\ keyring' = keyring
           /\ nextKey' = nextKey ]_vars

\* the identifier spells name, or name "@" database with no "@" in name
SplitsAtFirstAt(identifier, name, database) ==
    \E k \in 0..Len(identifier) :
        /\ \A i \in 1..k : identifier[i] # "@"
        /\ name = Join(SubSeq(identifier, 1, k))
        /\ \/ k = Len(identifier) /\ database = ""
           \/ /\ k < Len(identifier)
              /\ identifier[k + 1] = "@"
              /\ database = Join(SubSeq(identifier, k + 2, Len(identifier)))

\* the name of the default database: the configured one, "default" when none is
DefaultName == IF config.DefaultDatabase = "" THEN "default" ELSE config.DefaultDatabase

\* C18: ParseSecretIdentifier splits name[@database] at the first "@" (an absent or
\* empty database part gives ""), and SetSecret, GetSecret, ListSecrets and
\* DeleteSecret called with database "" behave exactly as when called with the
\* default database name: the configured one, "default" when none is configured.
C18_EmptyDatabaseIsDefault ==
    /\ [](\A identifier \in Identifiers :
            SplitsAtFirstAt(identifier, ParseSecretIdentifier(identifier).name,
                            ParseSecretIdentifier(identifier).database))
    /\ [](\A name \in Names :
            /\ GetSecret(config, keyring, disk, name, "")
                 = GetSecret(config, keyring, disk, name, DefaultName)
            /\ ListSecrets(config, keyring, disk, "", now)
                 = ListSecrets(config, keyring, disk, DefaultName, now)
            /\ DeleteSecret(config, disk, name, "")
                 = DeleteSecret(config, disk, name, DefaultName)
            /\ \A args \in SecretArgs :
                  SetSecret(config, keyring, disk, name, args, "", now, now)
                    = SetSecret(config, keyring, disk, name, args, DefaultName, now, now))
    /\ [][ (Called("SetSecret") /\ last'.database = "")
           => /\ disk' = SetSecret(config, keyring, disk, last'.name, last'.args,
                                   DefaultName, last'.t1, last'.t2).disk
              /\ last'.err = SetSecret(config, keyring, disk, last'.name, last'.args,
                                       DefaultName, last'.t1, last'.t2).err ]_vars
    /\ [][ (Called("DeleteSecret") /\ last'.database = "")
           => disk' = DeleteSecret(config, disk, last'.name, DefaultName).disk ]_vars

\* C18 witness: a secret has just been stored through an identifier without
\* database part while a default database is configured, and GetSecret with
\* database "" returns it
C18_Witness ==
    /\ config.DefaultDatabase = "work"
    /\ last.op = "SetSecret"
    /\ last.database = ""
    /\ last.err = OK
    /\ Get(last.name, "").err = OK
    /\ last.name \in StoredNames(disk, "work")

\* C19: GetSecretsConfig keeps a storage directory the user has set, and otherwise
\* sets it to <directory of the config path>/secrets/default
\* ("~/.config/indietool/secrets/default" for the default configuration).
C19_SecretsDirUnderConfigDir ==
    [][ Called("GetSecretsConfig")
        => cfg'.Secrets.StorageDir
             = IF hist.userDir THEN cfg.Secrets.StorageDir
               ELSE filepathJoin(filepathJoin(filepathDir(cfg.Path), "secrets"), "default") ]_vars

\* process p is in the step that completes its SetSecret by writing the record
Stores(p) == calls[p].pc = "sealed" /\ calls'[p].pc = "idle"

\* the record of the call of p as the store holds it (GetSecret's answer)
StoredFor(d, p) == GetSecret(config, keyring, d, calls[p].name, calls[p].db)

\* C20: SetSecret's read-then-write is not atomic.  A write of SetSecret that
\* replaces a committed record by one with a later createdAt is a write of a call
\* whose read was overtaken: the record it replaces is not what the call has read.
\* Such a write is reachable when two processes run SetSecret on one identifier
\* (C20_Witness).
C20_ReadThenWriteNotAtomic ==
    [][ \A p \in Procs :
          ( /\ Stores(p)
            /\ StoredFor(disk, p).err = OK
            /\ StoredFor(disk', p).err = OK
            /\ StoredFor(disk', p).secret.CreatedAt > StoredFor(disk, p).secret.CreatedAt )
          => calls[p].existing # StoredFor(disk, p) ]_vars

\* C20 witness: both processes have completed, the last write was a successful
\* SetSecret, and the stored createdAt is later than the createdAt of the record
\* first committed for the identifier
C20_Witness ==
    /\ \A p \in Procs : calls[p].pc = "idle"
    /\ last.op = "SetSecret"
    /\ last.err = OK
    /\ LET id == <<ResolveDatabase(config, last.database), last.name>>
       IN  /\ hist.run[id].active
           /\ Get(last.name, last.database).err = OK
           /\ Get(last.name, last.database).secret.CreatedAt > hist.run[id].first


\* C21: DeleteDatabase removes exactly one database for every argument: the empty
\* argument stands for the default database, the storage root stays, and every
\* directory other than the one of the database named keeps its records.
C21_DeleteDatabaseRemovesOne ==
    [][ Called("DeleteDatabase")
        => LET db == ResolveDatabase(config, last'.database)
           IN  /\ disk'.root = disk.root
               /\ \A x \in DOMAIN disk.dirs :
                     x # getDBPath(db)[1]
                     => x \in DOMAIN disk'.dirs /\ disk'.dirs[x] = disk.dirs[x] ]_vars


\* the store after the record (db, name) has been taken out of it
Without(d, db, name) == StorageDelete(d, db, name).disk

\* C22: SetSecret reuses the existing createdAt only when its preliminary GetSecret
\* succeeds and treats every GetSecret failure as absence: over a stored record
\* that cannot be read, SetSecret returns what it returns when there is no such
\* record, and when it succeeds it has replaced the record by one encrypted to the
\* current key whose createdAt is the current time.
C22_ReadFailureIsAbsence ==
    [][ Called("SetSecret")
        => LET db == ResolveDatabase(config, last'.database)
               name == last'.name
               pre == GetSecret(config, keyring, disk, name, db)
               post == GetSecret(config, keyring, disk', name, db)
           IN  /\ (name \in StoredNames(disk, db) /\ pre.err # OK)
                  => /\ last'.err = SetSecret(config, keyring, Without(disk, db, name), name,
                                              last'.args, db, last'.t1, last'.t2).err
                     /\ last'.err = OK
                        => /\ KVOf(disk', db)[name] # KVOf(disk, db)[name]
                           /\ post.err = OK
                           /\ post.secret.CreatedAt = last'.t1
                           /\ post.secret.UpdatedAt = last'.t2
               /\ (pre.err = OK /\ last'.err = OK)
                  => post.secret.CreatedAt = pre.secret.CreatedAt ]_vars

\* C22 witness: a SetSecret has succeeded over a stored record that could not be
\* decrypted, at a time later than the createdAt that record was written with
C22_Witness ==
    /\ last.op = "SetSecret"
    /\ last.err = OK
    /\ last.name \in last.stored
    /\ last.t1 > 0
    /\ hist.run[<<ResolveDatabase(config, last.database), last.name>>].first = 0
    /\ Get(last.name, last.database).err = OK
    /\ Get(last.name, last.database).secret.CreatedAt = last.t1


\* this step is a DeleteSecret on a database whose directory does not exist
DeletesInAbsent ==
    /\ Called("DeleteSecret")
    /\ ~PathExists(disk, getDBPath(ResolveDatabase(config, last'.database)))

\* C23 as stated: DeleteSecret never brings a database into existence; a directory
\* that is absent before DeleteSecret(name, D) is absent afterwards, ListDatabases
\* is unchanged and GetSecret against D still returns DatabaseNotFound.
C23_DeleteSecretCreatesNothing ==
    [][ DeletesInAbsent
        => LET db == ResolveDatabase(config, last'.database)
           IN  /\ ~PathExists(disk', getDBPath(db))
               /\ StorageListDatabases(disk') = StorageListDatabases(disk)
               /\ \A name \in Names :
                     GetSecret(config, keyring, disk', name, db).err = ErrSecretDBNotFound ]_vars

\* C23 amended: DeleteSecret opens the store for writing and so creates the
\* directory of a database that has none; it returns no error, the directory is
\* there afterwards and holds no record, ListDatabases lists it in addition, the
\* other directories are untouched and GetSecret against D returns RecordNotFound.
C23_DeleteSecretCreatesDirectory ==
    [][ DeletesInAbsent
        => LET db == ResolveDatabase(config, last'.database)
           IN  /\ last'.err = OK
               /\ PathExists(disk', getDBPath(db))
               /\ KVOf(disk', db) = << >>
               /\ StorageListDatabases(disk')
                    = StorageListDatabases(disk) \cup {getDBPath(db)[1]}
               /\ \A x \in DOMAIN disk.dirs : disk'.dirs[x] = disk.dirs[x]
               /\ \A name \in Names :
                     GetSecret(config, keyring, disk', name, db).err = ErrRecordNotFound ]_vars

\* C23 witness: the first call made is a DeleteSecret, on a store without any
\* directory, and the directory of its database exists afterwards
C23_Witness ==
    /\ steps = 1
    /\ last.op = "DeleteSecret"
    /\ last.err = OK
    /\ getDBPath(ResolveDatabase(config, last.database))[1] \in ListDatabases
    /\ Get(last.name, last.database).err = ErrRecordNotFound


\* database holds records and the keyring has no key under its name
RecordsWithoutKey(database) ==
    LET db == ResolveDatabase(config, database)
    IN  StoredNames(disk, db) # {} /\ ~HasKey(db)

\* C24: ListSecrets(D) returns an error exactly when listing the keys of D fails,
\* which is when the directory of D is absent; the failures of the per-key
\* GetSecret are swallowed, a missing encryption key included: on a database that
\* holds records but has no key, ListSecrets returns the empty list and no error.
C24_ListSwallowsKeyNotFound ==
    \A database \in DatabaseArgs :
        LET db == ResolveDatabase(config, database)
            l == ListSecrets(config, keyring, disk, database, now)
        IN  /\ l.err # OK <=> StorageList(disk, db).err # OK
            /\ l.err # OK <=> ~PathExists(disk, getDBPath(db))
            /\ l.err # OK => l.err = ErrSecretDBNotFound /\ l.items = {}
            /\ RecordsWithoutKey(database)
               => /\ l = [err |-> OK, items |-> {}]
                  /\ \A name \in StoredNames(disk, db) :
                        Get(name, database).err = ErrKeyNotFound

\* C24 witness: a database holds records and has no key
C24_Witness ==
    \E database \in DatabaseArgs :
        /\ RecordsWithoutKey(database)
        /\ ListSecrets(config, keyring, disk, database, now) = [err |-> OK, items |-> {}]


\* C25: Storage.Get(D, key) fails with DatabaseNotFound exactly when the directory
\* of D is absent, fails with RecordNotFound exactly when the directory exists and
\* key is not stored in it (never set, or deleted since), and otherwise returns
\* the blob of the last Set call made for that directory and key.
C25_GetReturnsLatestSet ==
    \A database \in StoreDatabases, key \in StoreKeys :
        LET g == StorageGet(disk, database, key)
            path == getDBPath(database)
            id == <<path, key>>
        IN  /\ g.err \in {OK, ErrSecretDBNotFound, ErrRecordNotFound}
            /\ g.err = ErrSecretDBNotFound <=> ~PathExists(disk, path)
            /\ g.err = ErrRecordNotFound
                 <=> (PathExists(disk, path) /\ id \notin DOMAIN hist.latest)
            /\ g.err = OK => g.value = hist.latest[id].blob

\* C25 witness: a key has been set twice with different blobs and Get returns the
\* second, another key of that directory is not stored, and another directory is
\* absent
C25_Witness ==
    \E database \in StoreDatabases, key \in StoreKeys :
        /\ <<getDBPath(database), key>> \in DOMAIN hist.latest
        /\ hist.latest[<<getDBPath(database), key>>].sets = 2
        /\ last.op = "Storage.Set"
        /\ StorageGet(disk, database, key).value # NilBlob
        /\ \E other \in StoreKeys : StorageGet(disk, database, other).err = ErrRecordNotFound
        /\ \E other \in StoreDatabases : StorageGet(disk, other, key).err = ErrSecretDBNotFound


\* the directories that exist under the storage root
ExistingDirs ==
    { getDBPath(database)[1] :
        database \in { x \in StoreDatabases : PathExists(disk, getDBPath(x)) } }

\* C26: ListDatabases returns exactly the names of the directories that exist
\* under the storage root and do not start with ".", the empty list when there are
\* none (also when the root itself is gone); InitDatabase does not change what it
\* returns, so a database for which only InitDatabase was called is not listed.
C26_ListDatabasesListsDirectories ==
    /\ [](/\ ListDatabases = ExistingDirs \ {".cache"}
          /\ ExistingDirs \ {".cache"} = {} => ListDatabases = {}
          /\ ~disk.root => ListDatabases = {})
    /\ [][ Called("InitDatabase")
           => /\ StorageListDatabases(disk') = StorageListDatabases(disk)
              /\ (~PathExists(disk, getDBPath(last'.database))
                  => getDBPath(last'.database)[1] \notin StorageListDatabases(disk')) ]_vars

\* C26 witness: a hidden directory and another directory exist, InitDatabase has
\* just given a key to a database without directory, and only the directory that
\* is not hidden is listed
C26_Witness ==
    /\ ".cache" \in ExistingDirs
    /\ ListDatabases = {"work"}
    /\ last.op = "InitDatabase"
    /\ last.err = OK
    /\ last.database = "default"
    /\ HasKey("default")


\* the keys set in the directory of database and not deleted since
KeysSet(database) ==
    { key \in StoreKeys : <<getDBPath(database), key>> \in DOMAIN hist.latest }

\* C27: after any sequence of Set and Delete calls, Storage.List(D) on an existing
\* database returns, each exactly once and in ascending key order, precisely the
\* keys that were set and not deleted afterwards; setting a key again adds no
\* second entry.
C27_ListIsSortedKeySet ==
    \A database \in StoreDatabases :
        LET l == StorageList(disk, database)
        IN  PathExists(disk, getDBPath(database))
            => /\ l.err = OK
               /\ Range(l.keys) = KeysSet(database)
               /\ Len(l.keys) = Cardinality(KeysSet(database))
               /\ \A i, j \in DOMAIN l.keys :
                     i < j => BytesLess(KeyBytes(l.keys[i]), KeyBytes(l.keys[j]))

\* C27 witness: "k2" was set first, "k1" was set twice after it, and the list is
\* "k1", "k2"
C27_Witness ==
    /\ last.op = "Storage.Set"
    /\ last.name = "k1"
    /\ hist.latest[<<getDBPath(last.database), "k1">>].sets = 2
    /\ StorageList(disk, last.database) = [err |-> OK, keys |-> <<"k1", "k2">>]


\* the document SetSecret builds from the arguments args of one call, with the
\* createdAt it has decided on and its reading t2 of the clock
BuiltDoc(name, args, created, t2) ==
    MarshalSecret([Name |-> name, Value |-> args.value, Note |-> args.note,
                   CreatedAt |-> created, UpdatedAt |-> t2,
                   ExpiresAt |-> args.expiresAt]).data

\* C28: under every interleaving of concurrent SetSecret calls, a stored record is
\* the complete record of one call: the write of a call puts its whole document
\* (value, note, expiresAt and updatedAt of that call) in place of the stored one
\* and leaves every other record alone, and no other step of a call changes the
\* store; so the record stored once all calls have finished is the record of the
\* call whose write came last.
C28_StoredRecordIsOneCalls ==
    /\ [][ \A p \in Procs :
             Stores(p)
             => LET c == calls[p]
                    path == getDBPath(c.db)[1]
                IN  /\ StoredFor(disk', p).err = OK
                    /\ KVOf(disk', c.db)[c.name].plain
                         = BuiltDoc(c.name, c.args, c.createdAt, c.t2)
                    /\ \A f \in {"value", "note", "expires_at", "updated_at"} :
                          /\ f \in DOMAIN KVOf(disk', c.db)[c.name].plain
                               <=> f \in DOMAIN c.blob.plain
                          /\ f \in DOMAIN c.blob.plain
                               => KVOf(disk', c.db)[c.name].plain[f] = c.blob.plain[f]
                    /\ \A x \in DOMAIN disk.dirs, k \in StoreKeys :
                          (k \in DOMAIN disk.dirs[x] /\ <<x, k>> # <<path, c.name>>)
                          => /\ k \in DOMAIN disk'.dirs[x]
                             /\ disk'.dirs[x][k] = disk.dirs[x][k] ]_vars
    /\ [][ (\A p \in Procs : ~Stores(p)) => disk' = disk ]_vars

\* C28 witness: all calls have finished; the write that came last has replaced the
\* record another call had written for the same name while this one was under way
\* (its createdAt is the later one), with another value and another note, and
\* the stored record is the document of the last call alone
C28_Witness ==
    /\ \A p \in Procs : calls[p].pc = "idle"
    /\ last.op = "SetSecret"
    /\ last.err = OK
    /\ last.replaced # NilBlob
    /\ last.replaced.plain["value"].s # ToValidUTF8(last.args.value)
    /\ "note" \in DOMAIN last.replaced.plain
    /\ last.args.note = << >>
    /\ LET db == ResolveDatabase(config, last.database)
       IN  /\ last.replaced.plain["created_at"].t < KVOf(disk, db)[last.name].plain["created_at"].t
           /\ "note" \notin DOMAIN KVOf(disk, db)[last.name].plain
           /\ KVOf(disk, db)[last.name].plain["value"].s = ToValidUTF8(last.args.value)
           /\ KVOf(disk, db)[last.name].plain["updated_at"].t = last.t2


\* C29: every record SetSecret has written carries a Name equal to the key it is
\* stored under, so the items ListSecrets(D) returns have pairwise distinct names
\* and every such name is a key of D.
C29_ListedNamesAreKeys ==
    \A database \in DatabaseArgs :
        LET db == ResolveDatabase(config, database)
            l == ListSecrets(config, keyring, disk, database, now)
        IN  /\ \A key \in StoredNames(disk, db) :
                  Get(key, database).err = OK => Get(key, database).secret.Name = key
            /\ \A i \in l.items : i.Name \in StoredNames(disk, db)
            /\ \A i, j \in l.items : i.Name = j.Name => i = j

\* C30: with a clock that never goes back, every record SetSecret has stored has
\* createdAt <= updatedAt, in every reachable state: a record created fresh, a
\* record written over an existing one, and a record written by a call that ran
\* interleaved with another call on the same identifier.
C30_CreatedNotAfterUpdated ==
    \A database \in DatabaseArgs, name \in Names :
        Get(name, database).err = OK
        => Get(name, database).secret.CreatedAt <= Get(name, database).secret.UpdatedAt

\* C30 witness: a SetSecret has written over an existing record while another
\* call on the same identifier was under way, with the clock advancing between its
\* two readings, and the record stored is older than its last update
C30_Witness ==
    /\ last.op = "SetSecret"
    /\ last.err = OK
    /\ last.replaced # NilBlob
    /\ last.t1 < last.t2
    /\ \E p \in Procs :
          /\ calls[p].pc # "idle"
          /\ calls[p].name = last.name
          /\ calls[p].db = ResolveDatabase(config, last.database)
    /\ LET s == Get(last.name, last.database)
       IN  /\ s.err = OK
           /\ s.secret.CreatedAt < s.secret.UpdatedAt
           /\ s.secret.UpdatedAt = last.t2

====
